---- MODULE Spec2Model ----
(***************************************************************************)
(* Mini Ergo Wallet Tracker: the proxy/aggregation layer of                *)
(* backend/server.js (src/unnamed/part_000) and the dashboard of           *)
(* frontend/app.js (src/frontend/app.js) as state machines.                *)
(*                                                                         *)
(* Strings are sequences of one-character strings.  A request handler is   *)
(* an async function: each action below is one synchronous segment of a    *)
(* handler, from one await (or the start) to the next await or to the      *)
(* response, which is what the single-threaded runtime executes atomically.*)
(***************************************************************************)
EXTENDS Integers, Sequences, FiniteSets, TLC

VARIABLES
    cache,      \* the Map `cache`: url -> [data, ts]
    now,        \* Date.now(), in ms
    req,        \* per request slot: the handler's position, locals and response
    lastPut,    \* history: per url, the arguments and time of the last setCached
    limiter,    \* the rate limiter's record of the client address
    \* the dashboard, frontend/app.js (src/frontend/app.js)
    currentAddress,     \* let currentAddress
    currentItems,       \* let currentItems
    pageOffset,         \* let pageOffset
    autoRefreshTimer,   \* let autoRefreshTimer
    lastSeenBoxIds,     \* let lastSeenBoxIds
    dom,        \* the page: values of the controls, status line, summary, table rows
    timers,     \* the browser's interval timers, in the order of their creation
    refreshes   \* the invocations of doRefresh that reached the first await

server == <<cache, now, req, lastPut, limiter>>
dashboard == <<currentAddress, currentItems, pageOffset, autoRefreshTimer,
               lastSeenBoxIds, dom, timers, refreshes>>
vars == <<cache, now, req, lastPut, limiter, currentAddress, currentItems, pageOffset,
          autoRefreshTimer, lastSeenBoxIds, dom, timers, refreshes>>

----------------------------------------------------------------------------
(* Bounds of the exploration *)

MaxTime == 30001        \* the clock stops here
MaxQueryLen == 3        \* longest limit/offset query string explored
MaxItems == 3           \* longest UTXO list explored by the aggregator
MaxRejected == 2        \* requests beyond the rate limit explored per window
MaxIdLen == 3           \* longest path parameter explored by the identifier check
MaxRefreshes == 2       \* invocations of doRefresh explored
MaxTimers == 2          \* calls of setInterval explored
MaxPages == 1           \* clicks on next-page explored beyond the first page

(* Program constants *)

CACHE_TTL_MS == 30000
defaultTimeout == 30000
EXPLORER_MAX_LIMIT == 500
DefaultLimit == 100
windowMs == 15000

\* a limit that lets one request too many through
maxOffByOne == 30 + 1

\* max: the requests of one client address let through per window
max == 30

Reqs == {1, 2}           \* request slots: two requests may be in flight at once
TickSteps == {CACHE_TTL_MS, CACHE_TTL_MS + 1}

----------------------------------------------------------------------------
(* Strings *)

WhiteSpace == {" "}
DigitChars == <<"0", "1", "2", "3", "4", "5", "6", "7", "8", "9">>
IsDigit(c) == \E i \in 1..10 : DigitChars[i] = c
DigitVal(c) == (CHOOSE i \in 1..10 : DigitChars[i] = c) - 1

RECURSIVE SeqsUpTo(_, _)
SeqsUpTo(S, n) ==
    IF n = 0 THEN {<<>>}
    ELSE LET shorter == SeqsUpTo(S, n - 1)
         IN  shorter \cup {Append(s, c) : s \in shorter, c \in S}

\* s.replace(/\s/g, '')
RECURSIVE StripAllWhitespace(_)
StripAllWhitespace(s) ==
    IF s = <<>> THEN <<>>
    ELSE IF Head(s) \in WhiteSpace THEN StripAllWhitespace(Tail(s))
    ELSE <<Head(s)>> \o StripAllWhitespace(Tail(s))

RECURSIVE TrimStart(_)
TrimStart(s) ==
    IF s # <<>> /\ Head(s) \in WhiteSpace THEN TrimStart(Tail(s)) ELSE s

RECURSIVE TrimEnd(_)
TrimEnd(s) ==
    IF s # <<>> /\ s[Len(s)] \in WhiteSpace
    THEN TrimEnd(SubSeq(s, 1, Len(s) - 1)) ELSE s

\* s.trim()
Trim(s) == TrimEnd(TrimStart(s))

\* encodeURIComponent(s): unreserved characters are kept; a space and the
\* reserved characters are escaped as % and two hex digits
EscapeChar(c) ==
    CASE c = " " -> <<"%", "2", "0">>
      [] c = "%" -> <<"%", "2", "5">>
      [] c = "&" -> <<"%", "2", "6">>
      [] c = "/" -> <<"%", "2", "F">>
      [] c = "=" -> <<"%", "3", "D">>
      [] c = "?" -> <<"%", "3", "F">>
      [] OTHER -> <<c>>

RECURSIVE encodeURIComponent(_)
encodeURIComponent(s) ==
    IF s = <<>> THEN <<>>
    ELSE EscapeChar(Head(s)) \o encodeURIComponent(Tail(s))

----------------------------------------------------------------------------
(* Numbers of the request normalizer: a JS number is [nan, v] *)

NaN == [nan |-> TRUE, v |-> 0]
Num(n) == [nan |-> FALSE, v |-> n]

RECURSIVE DigitPrefixValue(_, _)
DigitPrefixValue(s, acc) ==
    IF s # <<>> /\ IsDigit(Head(s))
    THEN DigitPrefixValue(Tail(s), 10 * acc + DigitVal(Head(s)))
    ELSE acc

\* parseInt(s, 10) of a string: leading whitespace skipped, an optional sign,
\* then the longest prefix of decimal digits; NaN when there is none.
parseIntStr(s) ==
    LET t    == TrimStart(s)
        neg  == t # <<>> /\ Head(t) = "-"
        sgn  == t # <<>> /\ Head(t) \in {"-", "+"}
        body == IF sgn THEN Tail(t) ELSE t
    IN  IF body = <<>> \/ ~IsDigit(Head(body)) THEN NaN
        ELSE Num((IF neg THEN -1 ELSE 1) * DigitPrefixValue(body, 0))

\* A query parameter: absent (undefined) or a string.
QAbsent == [present |-> FALSE, s |-> <<>>]
QStr(s) == [present |-> TRUE, s |-> s]

\* parseInt(req.query.x, 10): undefined is converted to "undefined", no digits
parseInt(q) == IF q.present THEN parseIntStr(q.s) ELSE NaN

\* a || b on numbers: NaN and 0 are falsy
OrElse(a, b) == IF a.nan \/ a.v = 0 THEN b ELSE a

\* a normalizer that forgets the cap
CapLimitMissing(limit) == limit

\* if (limit > EXPLORER_MAX_LIMIT) limit = EXPLORER_MAX_LIMIT
CapLimit(limit) == IF limit > EXPLORER_MAX_LIMIT THEN EXPLORER_MAX_LIMIT ELSE limit

\* a normalizer that forgets the guard against non-positive limits
DefaultedLimitUnguarded(q) == OrElse(parseInt(q), Num(DefaultLimit)).v

\* let limit = parseInt(req.query.limit, 10) || 100, then the guard against
\* NaN and non-positive values
DefaultedLimit(q) ==
    LET l0 == OrElse(parseInt(q), Num(DefaultLimit))
    IN  IF l0.nan \/ l0.v <= 0 THEN DefaultLimit ELSE l0.v

\* the UTXO route's effective limit
EffectiveLimit(q) == CapLimit(DefaultedLimit(q))

\* a normalizer that forgets the guard against negative offsets
EffectiveOffsetUnguarded(q) == OrElse(parseInt(q), Num(0)).v

\* the UTXO route's effective offset
EffectiveOffset(q) ==
    LET o0 == OrElse(parseInt(q), Num(0))
    IN  IF o0.nan \/ o0.v < 0 THEN 0 ELSE o0.v

----------------------------------------------------------------------------
(* Upstream URLs.  The template strings are kept as records of their parts:  *)
(* encodeURIComponent escapes "/", "?", "&" and "=", and a number is         *)
(* rendered in decimal, so two URLs are the same string exactly when their   *)
(* parts agree.  query holds the values of the query parameters in order:    *)
(* <<limit, offset>>, <<limit>> or none.                                     *)

\* a cache key built from the address alone
UtxoUrlWithoutQuery(address, limit, offset) ==
    [path |-> "/boxes/byAddress/", id |-> encodeURIComponent(address),
     query |-> <<>>]

UtxoUrl(address, limit, offset) ==
    [path |-> "/boxes/byAddress/", id |-> encodeURIComponent(address),
     query |-> <<limit, offset>>]
TokenUrl(id) ==
    [path |-> "/tokens/", id |-> encodeURIComponent(id), query |-> <<>>]
TxUrl(txId) ==
    [path |-> "/transactions/byId/", id |-> encodeURIComponent(txId), query |-> <<>>]
\* a summary that asks for the default window of the UTXO route
SummaryUrlDefaultWindow(address) ==
    [path |-> "/boxes/byAddress/", id |-> encodeURIComponent(address),
     query |-> <<DefaultLimit>>]

SummaryUrl(address) ==
    [path |-> "/boxes/byAddress/", id |-> encodeURIComponent(address),
     query |-> <<500>>]

----------------------------------------------------------------------------
(* Exact integers.  A non-negative integer is a sequence of limbs in base    *)
(* 10^8, least significant first, without leading zero limbs; 0 is <<>>.     *)
(* It models a BigInt, the integer value of a JS number, and the value of    *)
(* an integer numeral in a response body.                                    *)

LimbBase == 10 ^ 8

RECURSIVE BigNormalize(_)
BigNormalize(a) ==
    IF a # <<>> /\ a[Len(a)] = 0 THEN BigNormalize(SubSeq(a, 1, Len(a) - 1)) ELSE a

\* a * m + carry, limb by limb (m <= 10)
RECURSIVE BigMulAdd(_, _, _)
BigMulAdd(a, m, carry) ==
    IF a = <<>> THEN (IF carry = 0 THEN <<>> ELSE <<carry>>)
    ELSE LET s == Head(a) * m + carry
         IN  <<s % LimbBase>> \o BigMulAdd(Tail(a), m, s \div LimbBase)

RECURSIVE BigAddCarry(_, _, _)
BigAddCarry(a, b, carry) ==
    IF a = <<>> /\ b = <<>> THEN (IF carry = 0 THEN <<>> ELSE <<carry>>)
    ELSE LET x == IF a = <<>> THEN 0 ELSE Head(a)
             y == IF b = <<>> THEN 0 ELSE Head(b)
             s == x + y + carry
         IN  <<s % LimbBase>> \o
             BigAddCarry(IF a = <<>> THEN <<>> ELSE Tail(a),
                         IF b = <<>> THEN <<>> ELSE Tail(b),
                         s \div LimbBase)

\* a + b on BigInts: exact
BigAdd(a, b) == BigNormalize(BigAddCarry(a, b, 0))

\* a < b
RECURSIVE BigLess(_, _)
BigLess(a, b) ==
    IF Len(a) # Len(b) THEN Len(a) < Len(b)
    ELSE IF a = <<>> THEN FALSE
    ELSE IF a[Len(a)] # b[Len(b)] THEN a[Len(a)] < b[Len(b)]
    ELSE BigLess(SubSeq(a, 1, Len(a) - 1), SubSeq(b, 1, Len(b) - 1))

\* the decimal digits of a limb, zero-padded to `width` characters
RECURSIVE LimbDigits(_, _)
LimbDigits(n, width) ==
    IF width = 0 THEN <<>>
    ELSE Append(LimbDigits(n \div 10, width - 1), DigitChars[(n % 10) + 1])

RECURSIVE DropLeadingZeros(_)
DropLeadingZeros(s) ==
    IF Len(s) > 1 /\ Head(s) = "0" THEN DropLeadingZeros(Tail(s)) ELSE s

RECURSIVE BigDigits(_)
BigDigits(a) ==
    IF a = <<>> THEN <<>>
    ELSE LimbDigits(a[Len(a)], 8) \o BigDigits(SubSeq(a, 1, Len(a) - 1))

\* BigInt.prototype.toString(): the decimal numeral, "0" for zero
BigToString(a) == IF a = <<>> THEN <<"0">> ELSE DropLeadingZeros(BigDigits(a))

\* the integer a string of decimal digits denotes
RECURSIVE BigFromDigits(_, _)
BigFromDigits(s, acc) ==
    IF s = <<>> THEN BigNormalize(acc)
    ELSE BigFromDigits(Tail(s), BigMulAdd(acc, 10, DigitVal(Head(s))))

(* The value a JS number (an IEEE-754 double) takes for the integer numeral  *)
(* n: n itself below 2^53, else n rounded to the nearest multiple of the     *)
(* spacing q of the doubles around it, ties to the even mantissa.  q divides *)
(* 10^8 for every n below 2^57, so n mod q and n mod 2q are read off the     *)
(* lowest limb.                                                              *)
Pow2_53 == <<54740992, 90071992>>       \* 9007199254740992
Pow2_54 == <<9481984, 80143985, 1>>     \* 18014398509481984
Pow2_55 == <<18963968, 60287970, 3>>     \* 36028797018963968
Pow2_56 == <<37927936, 20575940, 7>>     \* 72057594037927936

DoubleSpacing(n) ==
    IF BigLess(n, Pow2_53) THEN 1
    ELSE IF BigLess(n, Pow2_54) THEN 2
    ELSE IF BigLess(n, Pow2_55) THEN 4
    ELSE IF BigLess(n, Pow2_56) THEN 8
    ELSE 16

ToDouble(n) ==
    LET q    == DoubleSpacing(n)
        low  == IF n = <<>> THEN 0 ELSE Head(n)
        r    == low % q
        down == IF n = <<>> THEN <<>> ELSE BigNormalize(<<low - r>> \o Tail(n))
        up   == BigAdd(down, <<q>>)
        downEven == ((low - r) % (2 * q)) = 0
    IN  IF r = 0 THEN n
        ELSE IF 2 * r < q THEN down
        ELSE IF 2 * r > q THEN up
        ELSE IF downEven THEN down ELSE up

----------------------------------------------------------------------------
(* JSON.  A value is a record tagged by k: "undefined", "null", "num" (n: its  *)
(* integer value), "str" (s), "arr" (a: a sequence), "obj" (f: a function     *)
(* from the present field names to values).                                   *)

JUndefined == [k |-> "undefined"]
JNull == [k |-> "null"]
JNum(n) == [k |-> "num", n |-> n]
JStr(s) == [k |-> "str", s |-> s]
JArr(a) == [k |-> "arr", a |-> a]
JObj(f) == [k |-> "obj", f |-> f]

\* JSON.parse of a body (response.json()): the structure is kept and every
\* numeral becomes a JS number
RECURSIVE ParseJSON(_)
ParseJSON(j) ==
    CASE j.k = "num" -> JNum(ToDouble(j.n))
      [] j.k = "arr" -> JArr([i \in DOMAIN j.a |-> ParseJSON(j.a[i])])
      [] j.k = "obj" -> JObj([x \in DOMAIN j.f |-> ParseJSON(j.f[x])])
      [] OTHER -> j

\* v.name, for a v that is neither null nor undefined
Field(v, name) ==
    IF v.k = "obj" /\ name \in DOMAIN v.f THEN v.f[name] ELSE JUndefined

Nullish(v) == v.k \in {"undefined", "null"}

\* ToBoolean(v)
Truthy(v) ==
    CASE v.k \in {"undefined", "null"} -> FALSE
      [] v.k = "num" -> v.n # <<>>
      [] v.k = "str" -> v.s # <<>>
      [] OTHER -> TRUE

\* Array.isArray(v)
IsArray(v) == v.k = "arr"

\* v || d
OrJ(v, d) == IF Truthy(v) THEN v ELSE d

\* String(v), for the kinds a tokenId takes
ToStringJ(v) ==
    CASE v.k = "str" -> v.s
      [] v.k = "num" -> BigToString(v.n)
      [] v.k = "null" -> <<"n", "u", "l", "l">>
      [] OTHER -> <<"u", "n", "d", "e", "f", "i", "n", "e", "d">>

\* BigInt(v), for v a number, a string, null or undefined: [ok, n], ok FALSE
\* when the conversion throws.  A number of the model is always an integer; a
\* string converts when it is a decimal numeral (the empty string gives 0n).
ToBigInt(v) ==
    CASE v.k = "num" -> [ok |-> TRUE, n |-> v.n]
      [] v.k = "str" ->
            IF \A i \in DOMAIN v.s : IsDigit(v.s[i])
            THEN [ok |-> TRUE, n |-> BigFromDigits(v.s, <<>>)]
            ELSE [ok |-> FALSE, n |-> <<>>]
      [] OTHER -> [ok |-> FALSE, n |-> <<>>]

----------------------------------------------------------------------------
(* The cache *)

NoUrl == [path |-> "", id |-> <<>>, query |-> <<>>]

\* an expiry test that is off by one millisecond
ExpiredAtTtl(item, t) == t - item.ts >= CACHE_TTL_MS

\* Date.now() - item.ts > CACHE_TTL_MS
Expired(item, t) == t - item.ts > CACHE_TTL_MS

\* getCached(key): the value returned (null for a miss) ...
getCachedValue(c, key, t) ==
    IF key \notin DOMAIN c THEN JNull
    ELSE IF Expired(c[key], t) THEN JNull
    ELSE c[key].data

\* a lookup that forgets cache.delete(key)
getCachedMapKeepsExpired(c, key, t) == c

\* ... and the map it leaves: an expired entry is deleted
getCachedMap(c, key, t) ==
    IF key \in DOMAIN c /\ Expired(c[key], t)
    THEN [u \in DOMAIN c \ {key} |-> c[u]]
    ELSE c

\* a store that merges the fields of a new object into the object it finds
setCachedMerging(c, key, data, t) ==
    [u \in DOMAIN c \cup {key} |->
        IF u # key THEN c[u]
        ELSE IF key \in DOMAIN c /\ c[key].data.k = "obj" /\ data.k = "obj"
             THEN [data |-> JObj(data.f @@ c[key].data.f), ts |-> t]
             ELSE [data |-> data, ts |-> t]]

\* a store that leaves an entry it finds under the key as it is
setCachedFirstWins(c, key, data, t) ==
    IF key \in DOMAIN c THEN c
    ELSE [u \in DOMAIN c \cup {key} |-> IF u = key THEN [data |-> data, ts |-> t] ELSE c[u]]

\* setCached(key, data): the map after cache.set(key, {data, ts: Date.now()})
setCached(c, key, data, t) ==
    [u \in DOMAIN c \cup {key} |-> IF u = key THEN [data |-> data, ts |-> t] ELSE c[u]]

----------------------------------------------------------------------------
(* The rate limiter mounted on /api/ ahead of the routes.  All requests of   *)
(* the model come from one client address, so the limiter keeps one record:  *)
(* hits, the requests counted in the current window, and resetTime, the end  *)
(* of that window.  handled is history: the requests of the window that      *)
(* were passed on to a route.                                                *)

NoWindow == [hits |-> 0, resetTime |-> 0, handled |-> 0]

\* the record at time t: a window that has run out is replaced by a new one
LimiterWindow(l, t) ==
    IF t >= l.resetTime
    THEN [hits |-> 0, resetTime |-> t + windowMs, handled |-> 0]
    ELSE l

\* the record after the limiter has counted a request arriving at time t
LimiterHit(l, t) == [LimiterWindow(l, t) EXCEPT !.hits = @ + 1]

\* the limiter answers the request arriving at time t itself
LimiterBlocks(l, t) == LimiterHit(l, t).hits > max

\* the limiter passes the request arriving at time t on to its route
LimiterPass(l, t) == [LimiterHit(l, t) EXCEPT !.handled = @ + 1]

----------------------------------------------------------------------------
(* The aggregator of the summary route.  acc is [ok, total, tokens]: ok is   *)
(* FALSE once a step has thrown; tokens is the Map tokenMap as the sequence  *)
(* of its entries in insertion order.                                        *)

\* an update that deletes the entry and inserts it again, at the end
MapAddReinsert(tokens, id, amt) ==
    IF \E i \in DOMAIN tokens : tokens[i].tokenId = id
    THEN LET i    == CHOOSE n \in DOMAIN tokens : tokens[n].tokenId = id
             rest == SubSeq(tokens, 1, i - 1) \o SubSeq(tokens, i + 1, Len(tokens))
         IN  Append(rest, [tokenId |-> id, amount |-> BigAdd(tokens[i].amount, amt)])
    ELSE Append(tokens, [tokenId |-> id, amount |-> BigAdd(<<>>, amt)])

\* tokenMap.set(id, (tokenMap.get(id) || 0n) + amt)
MapAdd(tokens, id, amt) ==
    IF \E i \in DOMAIN tokens : tokens[i].tokenId = id
    THEN [i \in DOMAIN tokens |->
            IF tokens[i].tokenId = id
            THEN [tokenId |-> id, amount |-> BigAdd(tokens[i].amount, amt)]
            ELSE tokens[i]]
    ELSE Append(tokens, [tokenId |-> id, amount |-> BigAdd(<<>>, amt)])

Thrown == [ok |-> FALSE, total |-> <<>>, tokens |-> <<>>]

\* (it.assets || []).forEach(a => ...), from asset j on
RECURSIVE AggAssets(_, _, _)
AggAssets(assets, j, acc) ==
    IF ~acc.ok \/ j > Len(assets) THEN acc
    ELSE LET a   == assets[j]
             amt == IF Nullish(a) THEN [ok |-> FALSE, n |-> <<>>]
                    ELSE ToBigInt(OrJ(Field(a, "amount"), JNum(<<>>)))
         IN  IF ~amt.ok THEN Thrown
             ELSE AggAssets(assets, j + 1,
                    [acc EXCEPT !.tokens =
                        MapAdd(acc.tokens, ToStringJ(Field(a, "tokenId")), amt.n)])

\* items.forEach(it => ...), from item i on
RECURSIVE AggItems(_, _, _)
AggItems(items, i, acc) ==
    IF ~acc.ok \/ i > Len(items) THEN acc
    ELSE LET it == items[i]
             v  == IF Nullish(it) THEN [ok |-> FALSE, n |-> <<>>]
                   ELSE ToBigInt(OrJ(Field(it, "value"), JNum(<<>>)))
         IN  IF ~v.ok THEN Thrown
             ELSE LET assets == OrJ(Field(it, "assets"), JArr(<<>>))
                  IN  IF ~IsArray(assets) THEN Thrown
                      ELSE AggItems(items, i + 1,
                             AggAssets(assets.a, 1,
                                [acc EXCEPT !.total = BigAdd(acc.total, v.n)]))

\* the items the summary route aggregates over
SummaryItems(data) ==
    IF Truthy(data) /\ Truthy(Field(data, "items")) THEN Field(data, "items")
    ELSE IF IsArray(data) THEN data
    ELSE JArr(<<>>)

\* the response of the summary route for the data it obtained
SummaryResponse(address, data) ==
    LET items == SummaryItems(data)
        agg   == IF IsArray(items)
                 THEN AggItems(items.a, 1, [ok |-> TRUE, total |-> <<>>, tokens |-> <<>>])
                 ELSE Thrown
    IN  IF ~agg.ok THEN [status |-> 500, error |-> "failed"]
        ELSE [status |-> 200,
              address |-> address,
              totalNanoErg |-> BigToString(agg.total),
              tokenCount |-> Len(agg.tokens),
              tokens |-> [i \in DOMAIN agg.tokens |->
                            [tokenId |-> agg.tokens[i].tokenId,
                             amount |-> BigToString(agg.tokens[i].amount)]],
              utxoCount |-> Len(items.a)]

----------------------------------------------------------------------------
(* The dashboard, frontend/app.js.  Event handlers run to completion; an     *)
(* async function runs from one await to the next in one piece.  A boxes     *)
(* list is a sequence of [boxId, value].  timers lists every interval timer  *)
(* setInterval has created, timer i having the id i; `active` is FALSE once  *)
(* clearInterval was called on it, and period is what the browser runs it    *)
(* with.  A record of refreshes is one invocation of doRefresh: pc is        *)
(* "utxos" (awaiting fetchUTXOs), "summary" (awaiting fetchSummary) or       *)
(* "done"; address is the address it passed to fetchUTXOs and summaryFor the  *)
(* one it passed to fetchSummary; items (what fetchUTXOs returned) and       *)
(* failed (fetchUTXOs threw) are history.                                    *)

pageLimit == 20

\* null, and the id setInterval returns
null == [timer |-> FALSE, id |-> 0]
TimerId(i) == [timer |-> TRUE, id |-> i]

DashboardInit ==
    /\ currentAddress = <<>>
    /\ currentItems = <<>>
    /\ pageOffset = 0
    /\ autoRefreshTimer = null
    /\ lastSeenBoxIds = {}
    /\ dom = [addressInput |-> <<>>, filterMin |-> <<>>, sortBy |-> "",
              autoRefresh |-> FALSE, refreshIntervalInput |-> <<>>,
              status |-> "", summaryAddress |-> <<>>, summaryUtxoCount |-> 0,
              table |-> <<>>]
    /\ timers = <<>>
    /\ refreshes = <<>>

\* Number(s) for a string: blank is 0, a signed decimal integer its value,
\* anything else NaN
RECURSIVE DigitsValue(_, _)
DigitsValue(s, acc) ==
    IF s = <<>> THEN acc ELSE DigitsValue(Tail(s), acc * 10 + DigitVal(Head(s)))

Number(s) ==
    LET t      == Trim(s)
        signed == t # <<>> /\ Head(t) \in {"-", "+"}
        d      == IF signed THEN Tail(t) ELSE t
    IN  IF t = <<>> THEN Num(0)
        ELSE IF d # <<>> /\ \A i \in DOMAIN d : IsDigit(d[i])
        THEN Num(IF Head(t) = "-" THEN 0 - DigitsValue(d, 0) ELSE DigitsValue(d, 0))
        ELSE NaN

\* Math.max(5000, s * 1000), in units of 1000 ms, for an integer s
MaxDelaySeconds(s) == IF s > 5 THEN s ELSE 5

\* the period the browser gives a timer created by setInterval(f, 1000 * sec):
\* the delay is converted to a 32-bit signed integer, modulo 2^32, and a negative
\* result is taken as 0.  Computed on 16-bit halves.
setIntervalPeriod(sec) ==
    LET lo == (sec % 65536) * 1000
        hi == ((sec \div 65536) * 1000 + (lo \div 65536)) % 65536
    IN  IF hi >= 32768 THEN 0 ELSE hi * 65536 + (lo % 65536)

\* stopAutoRefresh(): [timer, list] afterwards
stopAutoRefresh(timer, list) ==
    IF timer.timer
    THEN [timer |-> null,
          list  |-> [i \in DOMAIN list |->
                        IF i = timer.id THEN [list[i] EXCEPT !.active = FALSE]
                        ELSE list[i]]]
    ELSE [timer |-> timer, list |-> list]

\* startAutoRefresh(): [timer, list] afterwards
startAutoRefresh(timer, list, intervalText) ==
    LET stopped == stopAutoRefresh(timer, list)
        s       == OrElse(Number(intervalText), Num(15)).v
        period  == setIntervalPeriod(MaxDelaySeconds(s))
    IN  [timer |-> TimerId(Len(stopped.list) + 1),
         list  |-> Append(stopped.list, [active |-> TRUE, period |-> period])]

\* stable insertion of a box into a list sorted by falling value
RECURSIVE InsertByValueDesc(_, _)
InsertByValueDesc(sorted, it) ==
    IF sorted = <<>> THEN <<it>>
    ELSE IF Head(sorted).value >= it.value
         THEN <<Head(sorted)>> \o InsertByValueDesc(Tail(sorted), it)
         ELSE <<it>> \o sorted

\* filtered.sort((a,b) => Number(b.value||0) - Number(a.value||0))
RECURSIVE SortByValueDesc(_)
SortByValueDesc(items) ==
    IF items = <<>> THEN <<>>
    ELSE InsertByValueDesc(SortByValueDesc(SubSeq(items, 1, Len(items) - 1)),
                           items[Len(items)])

\* applyFiltersAndSort(items) with an empty token filter, for the sort orders
\* "" and "value_desc"
applyFiltersAndSort(items, d) ==
    LET minQ     == OrElse(Number(d.filterMin), Num(0)).v
        filtered == SelectSeq(items, LAMBDA it : it.value >= minQ)
    IN  IF d.sortBy = "value_desc" THEN SortByValueDesc(filtered) ELSE filtered

\* a.slice(from, to)
Slice(a, from, to) ==
    LET last == IF to < Len(a) THEN to ELSE Len(a)
    IN  IF from >= last THEN <<>> ELSE SubSeq(a, from + 1, last)

\* doRefresh() called while the page is d and currentAddress is address: up to
\* the return on an empty address or to the await of fetchUTXOs
doRefresh(address, d) ==
    IF address = <<>>
    THEN /\ dom' = d
         /\ UNCHANGED refreshes
    ELSE /\ Len(refreshes) < MaxRefreshes
         /\ dom' = [d EXCEPT !.status = "loading"]
         /\ refreshes' = Append(refreshes,
                            [pc |-> "utxos", address |-> address, items |-> <<>>,
                             summaryFor |-> <<>>, failed |-> FALSE])

\* the form is submitted with `text` in the address field
Submit(text) ==
    LET addr == Trim(text)
        d    == [dom EXCEPT !.addressInput = text]
    IN  /\ IF addr = <<>>
           THEN /\ dom' = [d EXCEPT !.status = "enter an address"]
                /\ UNCHANGED <<currentAddress, pageOffset, lastSeenBoxIds, refreshes>>
           ELSE /\ currentAddress' = addr
                /\ pageOffset' = 0
                /\ lastSeenBoxIds' = {}
                /\ doRefresh(addr, d)
        /\ UNCHANGED <<currentItems, autoRefreshTimer, timers, server>>

\* input on the minimum-value filter
FilterInput(text) ==
    /\ doRefresh(currentAddress, [dom EXCEPT !.filterMin = text])
    /\ UNCHANGED <<currentAddress, currentItems, pageOffset, autoRefreshTimer,
                   lastSeenBoxIds, timers, server>>

\* the sort order is changed
SortChange(order) ==
    /\ doRefresh(currentAddress, [dom EXCEPT !.sortBy = order])
    /\ UNCHANGED <<currentAddress, currentItems, pageOffset, autoRefreshTimer,
                   lastSeenBoxIds, timers, server>>

\* click on the previous-page button
PrevPage ==
    /\ pageOffset' = (IF pageOffset - pageLimit > 0 THEN pageOffset - pageLimit ELSE 0)
    /\ doRefresh(currentAddress, dom)
    /\ UNCHANGED <<currentAddress, currentItems, autoRefreshTimer, lastSeenBoxIds,
                   timers, server>>

\* click on the next-page button
NextPage ==
    /\ pageOffset < MaxPages * pageLimit
    /\ pageOffset' = pageOffset + pageLimit
    /\ doRefresh(currentAddress, dom)
    /\ UNCHANGED <<currentAddress, currentItems, autoRefreshTimer, lastSeenBoxIds,
                   timers, server>>

\* the user edits the refresh-interval field (no handler is attached to it)
IntervalInput(text) ==
    /\ dom' = [dom EXCEPT !.refreshIntervalInput = text]
    /\ UNCHANGED <<currentAddress, currentItems, pageOffset, autoRefreshTimer,
                   lastSeenBoxIds, timers, refreshes, server>>

\* the auto-refresh checkbox changes to `checked`
AutoRefreshChange(checked) ==
    /\ dom.autoRefresh # checked
    /\ checked => Len(timers) < MaxTimers
    /\ LET after == IF checked
                    THEN startAutoRefresh(autoRefreshTimer, timers,
                                          dom.refreshIntervalInput)
                    ELSE stopAutoRefresh(autoRefreshTimer, timers)
       IN  /\ autoRefreshTimer' = after.timer
           /\ timers' = after.list
    /\ dom' = [dom EXCEPT !.autoRefresh = checked]
    /\ UNCHANGED <<currentAddress, currentItems, pageOffset, lastSeenBoxIds,
                   refreshes, server>>

\* interval timer i fires: () => doRefresh()
TimerFires(i) ==
    /\ i \in DOMAIN timers /\ timers[i].active
    /\ doRefresh(currentAddress, dom)
    /\ UNCHANGED <<currentAddress, currentItems, pageOffset, autoRefreshTimer,
                   lastSeenBoxIds, timers, server>>

\* fetchUTXOs of invocation c resolves with `items` (j.items || []): doRefresh
\* goes on to the await of fetchSummary
UtxosArrive(c, items) ==
    /\ c \in DOMAIN refreshes /\ refreshes[c].pc = "utxos"
    /\ currentItems' = items
    /\ refreshes' = [refreshes EXCEPT ![c].pc = "summary", ![c].items = items,
                                      ![c].summaryFor = currentAddress]
    /\ UNCHANGED <<currentAddress, pageOffset, autoRefreshTimer, lastSeenBoxIds, dom,
                   timers, server>>

\* fetchUTXOs of invocation c throws: the catch block of doRefresh
UtxosFail(c) ==
    /\ c \in DOMAIN refreshes /\ refreshes[c].pc = "utxos"
    /\ dom' = [dom EXCEPT !.status = "error"]
    /\ refreshes' = [refreshes EXCEPT ![c].pc = "done", ![c].failed = TRUE]
    /\ UNCHANGED <<currentAddress, currentItems, pageOffset, autoRefreshTimer,
                   lastSeenBoxIds, timers, server>>

\* fetchSummary of invocation c resolves, with a summary (utxoCount = count) or
\* with null: doRefresh runs to its end
SummaryArrives(c, hasSummary, count) ==
    /\ c \in DOMAIN refreshes /\ refreshes[c].pc = "summary"
    /\ LET processed == applyFiltersAndSort(currentItems, dom)
           pageItems == Slice(processed, pageOffset, pageOffset + pageLimit)
           d         == IF hasSummary
                        THEN [dom EXCEPT !.summaryAddress = currentAddress,
                                         !.summaryUtxoCount = count]
                        ELSE dom
       IN  dom' = [d EXCEPT !.table = pageItems, !.status = "updated"]
    /\ lastSeenBoxIds' = lastSeenBoxIds
                            \cup {currentItems[i].boxId : i \in DOMAIN currentItems}
    /\ refreshes' = [refreshes EXCEPT ![c].pc = "done"]
    /\ UNCHANGED <<currentAddress, currentItems, pageOffset, autoRefreshTimer, timers,
                   server>>

----------------------------------------------------------------------------
(* Request slots, one request each.  pc is the handler's position: "idle"    *)
(* (not yet received),                                                       *)
(* "fetch" (awaiting fetch() inside fetchWithTimeout), "text" (awaiting      *)
(* response.text()), "json" (awaiting response.json()), "done" (responded).  *)
(* The other fields down to resp are history: input (what the client sent),  *)
(* calls and lookups (how many times the handler called fetchWithTimeout and *)
(* getCached), evicted (its lookup deleted an expired entry), wire (the body *)
(* the upstream delivered) and err (the name of the error its catch block    *)
(* received); sent counts the responses the handler has sent.                *)

NoResp == [status |-> 0]
NoInput == [param |-> <<>>, limit |-> QAbsent, offset |-> QAbsent]
IdleReq ==
    [pc |-> "idle", route |-> "", input |-> NoInput, id |-> <<>>, url |-> NoUrl,
     t0 |-> 0, upStatus |-> 0, calls |-> 0, lookups |-> 0, evicted |-> FALSE,
     wire |-> JUndefined, err |-> "", sent |-> 0, resp |-> NoResp]

Init ==
    /\ cache = <<>>
    /\ now = 0
    /\ req = [r \in Reqs |-> IdleReq]
    /\ lastPut = <<>>
    /\ limiter = NoWindow
    /\ DashboardInit

\* res.status(..).json(..) and return
Respond(rq, resp) == [rq EXCEPT !.pc = "done", !.resp = resp, !.sent = @ + 1]

\* fetchWithTimeout(url) up to its await: the abort timer is armed and fetch
\* is called
StartFetch(rq, url) ==
    [rq EXCEPT !.pc = "fetch", !.url = url, !.t0 = now, !.calls = @ + 1]

\* getCached(url) has been called by the handler
Looked(rq, url) ==
    [rq EXCEPT !.url = url, !.lookups = @ + 1,
               !.evicted = getCachedMap(cache, url, now) # cache]

\* a handler without its catch block: the error ends it and nothing is sent
CatchMissing(rq, errName, resp) == [rq EXCEPT !.pc = "done", !.err = errName]

\* the catch block of the handler runs for an error named errName
Catch(rq, errName, resp) == [Respond(rq, resp) EXCEPT !.err = errName]

\* a handler that forgets to validate its identifier
InvalidNever(id) == FALSE

\* if (!address) / if (!id) / if (!txId)
Invalid(id) == id = <<>>

\* the record of a setCached call: what was stored, when, and for which request
NotePut(key, data, rq) ==
    [u \in DOMAIN lastPut \cup {key} |->
        IF u = key
        THEN [data |-> data, at |-> now,
              by |-> [route |-> rq.route, id |-> rq.id, input |-> rq.input]]
        ELSE lastPut[u]]

\* slots are interchangeable: a request takes the first idle one
FreeSlot(r) == req[r].pc = "idle" /\ \A q \in Reqs : q < r => req[q].pc # "idle"

\* a request beyond the limit: the limiter answers it and no route runs
RateLimited(r, route, param) ==
    /\ FreeSlot(r)
    /\ LimiterBlocks(limiter, now)
    /\ LimiterHit(limiter, now).hits <= max + MaxRejected
    /\ limiter' = LimiterHit(limiter, now)
    /\ req' = [req EXCEPT ![r] =
                  Respond([IdleReq EXCEPT !.route = route, !.input.param = param],
                          [status |-> 429, error |-> "Too many requests, slow down."])]
    /\ UNCHANGED <<cache, now, lastPut, dashboard>>

\* GET /api/wallet/:address/utxos, to its first await or its response
ReceiveUtxos(r, param, limitQ, offsetQ) ==
    /\ FreeSlot(r)
    /\ ~LimiterBlocks(limiter, now)
    /\ limiter' = LimiterPass(limiter, now)
    /\ LET address == Trim(StripAllWhitespace(param))
           limit   == EffectiveLimit(limitQ)
           offset  == EffectiveOffset(offsetQ)
           url     == UtxoUrl(address, limit, offset)
           cached  == getCachedValue(cache, url, now)
           rq      == [IdleReq EXCEPT !.route = "utxos", !.id = address,
                          !.input = [param |-> param, limit |-> limitQ,
                                     offset |-> offsetQ]]
       IN  IF Invalid(address)
           THEN /\ req' = [req EXCEPT ![r] =
                              Respond(rq, [status |-> 400, error |-> "invalid address"])]
                /\ UNCHANGED cache
           ELSE /\ cache' = getCachedMap(cache, url, now)
                /\ IF Truthy(cached)
                   THEN req' = [req EXCEPT ![r] =
                                  Respond(Looked(rq, url),
                                          [status |-> 200, cached |-> TRUE, from |-> url,
                                           items |-> OrJ(Field(cached, "items"), JArr(<<>>))])]
                   ELSE req' = [req EXCEPT ![r] = StartFetch(Looked(rq, url), url)]
    /\ UNCHANGED <<now, lastPut, dashboard>>

\* GET /api/asset/:tokenId (route "asset") and GET /api/tx/:txId (route "tx"),
\* to the first await or the response: the two handlers differ in the URL only
ReceiveLookup(r, route, param) ==
    /\ FreeSlot(r)
    /\ ~LimiterBlocks(limiter, now)
    /\ limiter' = LimiterPass(limiter, now)
    /\ LET id     == Trim(param)
           url    == IF route = "asset" THEN TokenUrl(id) ELSE TxUrl(id)
           cached == getCachedValue(cache, url, now)
           rq     == [IdleReq EXCEPT !.route = route, !.id = id, !.input.param = param]
       IN  IF Invalid(id)
           THEN /\ req' = [req EXCEPT ![r] =
                              Respond(rq, [status |-> 400, error |-> "id required"])]
                /\ UNCHANGED cache
           ELSE /\ cache' = getCachedMap(cache, url, now)
                /\ IF Truthy(cached)
                   THEN req' = [req EXCEPT ![r] =
                                  Respond(Looked(rq, url),
                                          [status |-> 200, cached |-> TRUE, from |-> url,
                                           item |-> cached])]
                   ELSE req' = [req EXCEPT ![r] = StartFetch(Looked(rq, url), url)]
    /\ UNCHANGED <<now, lastPut, dashboard>>

ReceiveAsset(r, param) == ReceiveLookup(r, "asset", param)
ReceiveTx(r, param) == ReceiveLookup(r, "tx", param)

\* the summary route from `data` on: the aggregate is sent, or the catch block
\* answers the TypeError or SyntaxError the aggregation threw
SummaryRespond(rq, address, data) ==
    LET resp == SummaryResponse(address, data)
    IN  IF resp.status = 200 THEN Respond(rq, resp) ELSE Catch(rq, "TypeError", resp)

\* GET /api/summary/:address, to its first await or its response; the handler
\* never reads the limit and offset the client may have sent
ReceiveSummary(r, param, limitQ, offsetQ) ==
    /\ FreeSlot(r)
    /\ ~LimiterBlocks(limiter, now)
    /\ limiter' = LimiterPass(limiter, now)
    /\ LET address == Trim(StripAllWhitespace(param))
           url     == SummaryUrl(address)
           cached  == getCachedValue(cache, url, now)
           rq      == [IdleReq EXCEPT !.route = "summary", !.id = address,
                          !.input = [param |-> param, limit |-> limitQ,
                                     offset |-> offsetQ]]
       IN  IF Invalid(address)
           THEN /\ req' = [req EXCEPT ![r] =
                              Respond(rq, [status |-> 400, error |-> "address required"])]
                /\ UNCHANGED cache
           ELSE /\ cache' = getCachedMap(cache, url, now)
                /\ IF Truthy(cached)
                   THEN req' = [req EXCEPT ![r] =
                                  SummaryRespond(Looked(rq, url), address, cached)]
                   ELSE req' = [req EXCEPT ![r] = StartFetch(Looked(rq, url), url)]
    /\ UNCHANGED <<now, lastPut, dashboard>>

\* a request under /api/ that matches no route: the final 404 fallback
ReceiveUnmatched(r) ==
    /\ FreeSlot(r)
    /\ ~LimiterBlocks(limiter, now)
    /\ limiter' = LimiterPass(limiter, now)
    /\ req' = [req EXCEPT ![r] =
                  Respond([IdleReq EXCEPT !.route = "unmatched"],
                          [status |-> 404, error |-> "Not found"])]
    /\ UNCHANGED <<cache, now, lastPut, dashboard>>

\* a catch block that reports every failure as a timeout
CatchResponseAllTimeout(route, errName) ==
    [status |-> 504, error |-> "Explorer request timed out"]

\* what the catch block of a route answers to an error of the given name
CatchResponse(route, errName) ==
    IF route = "utxos" /\ errName = "AbortError"
    THEN [status |-> 504, error |-> "Explorer request timed out"]
    ELSE [status |-> 500, error |-> "failed"]

\* a test that takes every response for a success
okAlways(status) == TRUE

\* response.ok
ok(status) == status >= 200 /\ status <= 299

\* fetch() resolves with a response carrying `status`: the timer is cleared and
\* the handler goes on to read the body
FetchResolve(r, status) ==
    /\ req[r].pc = "fetch"
    /\ now - req[r].t0 <= defaultTimeout
    /\ req' = [req EXCEPT ![r].upStatus = status,
                          ![r].pc = IF req[r].route = "summary" \/ ok(status)
                                    THEN "json" ELSE "text"]
    /\ UNCHANGED <<cache, now, lastPut, limiter, dashboard>>

\* the timer fires: controller.abort() rejects fetch() with an AbortError
FetchAbort(r) ==
    /\ req[r].pc = "fetch"
    /\ now - req[r].t0 >= defaultTimeout
    /\ req' = [req EXCEPT ![r] =
                  Catch(req[r], "AbortError", CatchResponse(req[r].route, "AbortError"))]
    /\ UNCHANGED <<cache, now, lastPut, limiter, dashboard>>

\* a handler that calls the upstream again after a connection-level error
FetchNetworkErrorRetry(r) ==
    /\ req[r].pc = "fetch"
    /\ now - req[r].t0 <= defaultTimeout
    /\ req' = [req EXCEPT ![r] = StartFetch(req[r], req[r].url)]
    /\ UNCHANGED <<cache, now, lastPut, limiter, dashboard>>

\* fetch() rejects with a connection-level error
FetchNetworkError(r) ==
    /\ req[r].pc = "fetch"
    /\ now - req[r].t0 <= defaultTimeout
    /\ req' = [req EXCEPT ![r] =
                  Catch(req[r], "FetchError", CatchResponse(req[r].route, "FetchError"))]
    /\ UNCHANGED <<cache, now, lastPut, limiter, dashboard>>

\* a mapping that forwards every upstream status as it is
statusToClientForwardAll(status) == status

\* the status sent to the client for a non-2xx upstream status
statusToClient(status) == IF status >= 500 THEN 502 ELSE status

\* an error payload that carries the upstream body whole
SliceMissing(txt) == txt

\* txt.slice(0, 1000)
Slice1000(txt) == IF Len(txt) > 1000 THEN SubSeq(txt, 1, 1000) ELSE txt

\* the error response for a non-2xx upstream status and the text read off it
UpstreamErrorResponse(status, txt) ==
    [status |-> statusToClient(status), error |-> "explorer error",
     upstream |-> status, body |-> Slice1000(txt)]

\* response.text() resolves with txt
TextResolve(r, txt) ==
    /\ req[r].pc = "text"
    /\ req' = [req EXCEPT ![r] =
                  Respond([req[r] EXCEPT !.wire = JStr(txt)],
                          UpstreamErrorResponse(req[r].upStatus, txt))]
    /\ UNCHANGED <<cache, now, lastPut, limiter, dashboard>>

\* response.text() rejects: .catch(() => '') turns the failure into ''
TextFail(r) ==
    /\ req[r].pc = "text"
    /\ req' = [req EXCEPT ![r] =
                  Respond(req[r], UpstreamErrorResponse(req[r].upStatus, <<>>))]
    /\ UNCHANGED <<cache, now, lastPut, limiter, dashboard>>

\* a normalizer that passes the body through
NormalizeItemsRaw(json) == json

\* Array.isArray(json) ? json : (json.items || json), for a json that is not null
NormalizeItems(json) ==
    IF IsArray(json) THEN json ELSE OrJ(Field(json, "items"), json)

\* response.json() resolves: the body `wire` parsed
JsonResolve(r, wire) ==
    /\ req[r].pc = "json"
    /\ LET json  == ParseJSON(wire)
           rq    == [req[r] EXCEPT !.wire = wire]
           url   == req[r].url
       IN  CASE req[r].route = "utxos" ->
                  IF Nullish(json)
                  THEN /\ req' = [req EXCEPT ![r] =
                                     Catch(rq, "TypeError",
                                           CatchResponse("utxos", "TypeError"))]
                       /\ UNCHANGED <<cache, lastPut>>
                  ELSE LET items == NormalizeItems(json)
                           data  == JObj([items |-> items, raw |-> json])
                       IN  /\ cache' = setCached(cache, url, data, now)
                           /\ lastPut' = NotePut(url, data, rq)
                           /\ req' = [req EXCEPT ![r] =
                                         Respond(rq, [status |-> 200, cached |-> FALSE,
                                                      from |-> url, items |-> items])]
             [] req[r].route \in {"asset", "tx"} ->
                  /\ cache' = setCached(cache, url, json, now)
                  /\ lastPut' = NotePut(url, json, rq)
                  /\ req' = [req EXCEPT ![r] =
                                Respond(rq, [status |-> 200, cached |-> FALSE,
                                             from |-> url, item |-> json])]
             [] OTHER ->
                  /\ req' = [req EXCEPT ![r] = SummaryRespond(rq, req[r].id, json)]
                  /\ UNCHANGED <<cache, lastPut>>
    /\ UNCHANGED <<now, limiter, dashboard>>

\* response.json() rejects: the body is not JSON
JsonFail(r) ==
    /\ req[r].pc = "json"
    /\ req' = [req EXCEPT ![r] =
                  Catch(req[r], "SyntaxError", CatchResponse(req[r].route, "SyntaxError"))]
    /\ UNCHANGED <<cache, now, lastPut, limiter, dashboard>>

\* time passes, but not past the moment the abort timer of a pending fetch is
\* due: the timer fires then
Tick(d) ==
    /\ now + d <= MaxTime
    /\ \A r \in Reqs : req[r].pc = "fetch" => now + d - req[r].t0 <= defaultTimeout
    /\ now' = now + d
    /\ UNCHANGED <<cache, req, lastPut, limiter, dashboard>>

----------------------------------------------------------------------------
(* Inputs *)

\* the path parameters explored: Express never passes an empty one
Params == {<<" ">>, <<"A">>}

QueryChars == {" ", "-", "0", "5", "6", "x"}
QueryStrings == {QAbsent} \cup {QStr(t) : t \in SeqsUpTo(QueryChars, MaxQueryLen)}
FewQueries == {QAbsent, QStr(<<"6", "0", "0">>)}

Statuses == {200, 403, 404, 503}
\* a body one character longer than the error payload keeps
LongText == [i \in 1..(1000 + 1) |-> IF i > 1000 THEN "y" ELSE "x"]
Texts == {<<>>, <<"n", "o">>, LongText}

TwoTo53Plus1 == <<54740993, 90071992>>       \* 9007199254740993
TwoTo53Plus1Str ==
    <<"9","0","0","7","1","9","9","2","5","4","7","4","0","9","9","3">>
T1 == <<"T", "1">>
T2 == <<"T", "2">>

Asset(id, amount) == JObj([tokenId |-> JStr(id), amount |-> amount])
Box(value, assets) == JObj([boxId |-> JStr(<<"a">>), value |-> value, assets |-> assets])

\* bodies of the explorer explored by the server specification
ItemA == Box(JNum(<<5>>), JArr(<<Asset(T1, JNum(<<5>>))>>))
Bodies ==
    { JArr(<<ItemA>>),
      JObj([items |-> JArr(<<ItemA>>)]),
      JObj([items |-> JArr(<<>>)]),
      JObj([id |-> JStr(T1)]),
      JArr(<<JNull>>),
      JNum(<<>>),
      JNull }

----------------------------------------------------------------------------
(* The server, serving one request per slot *)

Next ==
    \/ \E r \in Reqs :
          \/ \E p \in Params, lq \in FewQueries : ReceiveUtxos(r, p, lq, QAbsent)
          \/ \E p \in Params : ReceiveAsset(r, p)
          \/ \E p \in Params : ReceiveTx(r, p)
          \/ \E p \in Params : ReceiveSummary(r, p, QAbsent, QAbsent)
          \/ \E st \in Statuses : FetchResolve(r, st)
          \/ FetchAbort(r)
          \/ FetchNetworkError(r)
          \/ ReceiveUnmatched(r)
          \/ \E txt \in Texts : TextResolve(r, txt)
          \/ TextFail(r)
          \/ \E b \in Bodies : JsonResolve(r, b)
          \/ JsonFail(r)
    \/ \E d \in TickSteps : Tick(d)

Spec == Init /\ [][Next]_vars

----------------------------------------------------------------------------
(* The request normalizers of the UTXO and summary routes over all query     *)
(* strings: one request, a limit or an offset drawn from QueryStrings, and   *)
(* an explorer that answers 200                                              *)

QueryPairs == (QueryStrings \X FewQueries) \cup (FewQueries \X QueryStrings)

\* the request arrives, with any of the query strings
ReceiveAnyQuery ==
    /\ req[1].pc = "idle"
    /\ \E qp \in QueryPairs :
          \/ ReceiveUtxos(1, <<"A">>, qp[1], qp[2])
          \/ ReceiveSummary(1, <<"A">>, qp[1], qp[2])

NextParams ==
    \/ ReceiveAnyQuery
    \/ FetchResolve(1, 200)
    \/ JsonResolve(1, JArr(<<ItemA>>))
    \/ \E d \in TickSteps : Tick(d)

SpecParams == Init /\ [][NextParams]_vars

----------------------------------------------------------------------------
(* The aggregator over all UTXO lists of up to MaxItems items: one summary   *)
(* request and an explorer that answers 200                                  *)

Pow9 == <<0, 10>>                           \* 1000000000
AggValues == {JUndefined, JNum(Pow9), JNum(TwoTo53Plus1), JStr(TwoTo53Plus1Str)}
AggAssetLists ==
    { JUndefined,
      JArr(<<Asset(T1, JNum(<<5>>))>>),
      JArr(<<Asset(T2, JNum(TwoTo53Plus1)), Asset(T1, JNum(<<7>>))>>) }

\* a box with the fields that are present
MakeBox(value, assets) ==
    JObj(("boxId" :> JStr(<<"a">>))
         @@ (IF value.k = "undefined" THEN <<>> ELSE ("value" :> value))
         @@ (IF assets.k = "undefined" THEN <<>> ELSE ("assets" :> assets)))

AggBoxes == {MakeBox(v, a) : v \in AggValues, a \in AggAssetLists}
AggLists == SeqsUpTo(AggBoxes, MaxItems)
\* every list as a bare array, and the lists of at most one box under `items` too
AggBodies ==
    {JArr(l) : l \in AggLists}
    \cup {JObj([items |-> JArr(l)]) : l \in {m \in AggLists : Len(m) <= 1}}

\* the explorer delivers any of the bodies
DeliverAnyList ==
    /\ req[1].pc = "json"
    /\ \E b \in AggBodies : JsonResolve(1, b)

NextAgg ==
    \/ ReceiveSummary(1, <<"A">>, QAbsent, QAbsent)
    \/ FetchResolve(1, 200)
    \/ DeliverAnyList

SpecAgg == Init /\ [][NextAgg]_vars

----------------------------------------------------------------------------
(* The rate limiter under a burst of UTXO requests: one slot, used again     *)
(* once its request has been answered                                        *)

\* the answered request leaves the slot
Forget(r) ==
    /\ req[r].pc = "done"
    /\ req' = [req EXCEPT ![r] = IdleReq]
    /\ UNCHANGED <<cache, now, lastPut, limiter, dashboard>>

NextLimiter ==
    \/ \E p \in Params : ReceiveUtxos(1, p, QAbsent, QAbsent)
    \/ \E p \in Params : RateLimited(1, "utxos", p)
    \/ FetchResolve(1, 200)
    \/ JsonResolve(1, JArr(<<ItemA>>))
    \/ Forget(1)
    \/ \E d \in TickSteps : Tick(d)

SpecLimiter == Init /\ [][NextLimiter]_vars

----------------------------------------------------------------------------
(* The identifier normalizers of the four routes over all path parameters of *)
(* up to MaxIdLen characters: one request and an explorer that answers       *)

IdChars == {" ", "A"}
\* Express never passes an empty path parameter
IdStrings == SeqsUpTo(IdChars, MaxIdLen) \ {<<>>}

\* the request arrives on any of the routes, with any of the parameters
ReceiveAnyId ==
    /\ req[1].pc = "idle"
    /\ \E p \in IdStrings :
          \/ ReceiveUtxos(1, p, QAbsent, QAbsent)
          \/ ReceiveAsset(1, p)
          \/ ReceiveTx(1, p)
          \/ ReceiveSummary(1, p, QAbsent, QAbsent)

NextIds ==
    \/ ReceiveAnyId
    \/ \E st \in {200, 404} : FetchResolve(1, st)
    \/ JsonResolve(1, JArr(<<ItemA>>))
    \/ TextResolve(1, <<>>)

SpecIds == Init /\ [][NextIds]_vars

----------------------------------------------------------------------------
(* Properties of the request normalizer (SpecParams) *)

\* s is a decimal numeral: one or more digits and nothing else
IsNumeral(s) == s # <<>> /\ \A i \in DOMAIN s : IsDigit(s[i])

\* the value of a decimal numeral
RECURSIVE NumeralValue(_)
NumeralValue(s) ==
    IF s = <<>> THEN 0
    ELSE 10 * NumeralValue(SubSeq(s, 1, Len(s) - 1)) + DigitVal(s[Len(s)])

\* s is an integer <= 0: a numeral of zeros, or "-" and a numeral
IsNonPositiveInteger(s) ==
    \/ IsNumeral(s) /\ NumeralValue(s) = 0
    \/ Len(s) >= 2 /\ Head(s) = "-" /\ IsNumeral(Tail(s))

\* s is a negative integer
IsNegativeInteger(s) ==
    Len(s) >= 2 /\ Head(s) = "-" /\ IsNumeral(Tail(s)) /\ NumeralValue(Tail(s)) > 0

\* no number can be read off s: after leading blanks and one sign there is no digit
IsNonNumeric(s) ==
    \E i \in 1..(Len(s) + 1) :
        /\ \A j \in 1..(i - 1) : s[j] = " "
        /\ LET k == IF i <= Len(s) /\ s[i] \in {"-", "+"} THEN i + 1 ELSE i
           IN  k > Len(s) \/ ~IsDigit(s[k])
        /\ i > Len(s) \/ s[i] # " "

\* the decimal numeral of n, 0 <= n < 10^8
Decimal(n) == BigToString(IF n = 0 THEN <<>> ELSE <<n>>)

\* request r is a UTXO request whose upstream URL has been built
UtxoUrlBuilt(r) == req[r].route = "utxos" /\ req[r].lookups > 0

\* C1: on the UTXO route every requested limit above 500 is sent upstream as
\* exactly 500, and the clamp is idempotent: a requested limit of 500 is sent as
\* 500, and asking for the limit that was sent yields that limit again.
C1_LimitClamped ==
    \A r \in Reqs : UtxoUrlBuilt(r) =>
        LET q    == req[r].input.limit
            sent == req[r].url.query[1]
        IN  /\ (q.present /\ IsNumeral(q.s) /\ NumeralValue(q.s) >= 500) => sent = 500
            /\ EffectiveLimit(QStr(Decimal(sent))) = sent

C1_Witness ==
    \E r \in Reqs :
        /\ UtxoUrlBuilt(r) /\ req[r].calls = 1
        /\ req[r].input.limit = QStr(<<"6", "5", "0">>)
        /\ req[r].url.query[1] = 500

----------------------------------------------------------------------------
(* The dashboard against a backend that answers every request, in any order, *)
(* with the boxes of the address in the request or with an error             *)

AddressTexts == {<<" ">>, <<"A">>, <<" ", "B">>}
FilterTexts == {<<>>, <<"9">>}
SortOrders == {"", "value_desc"}

\* the boxes of an address
Wallet(address) ==
    IF address = <<"A">>
    THEN <<[boxId |-> "A1", value |-> 5], [boxId |-> "A2", value |-> 20]>>
    ELSE <<[boxId |-> "B1", value |-> 7]>>

NextDash ==
    \/ \E t \in AddressTexts : Submit(t)
    \/ \E t \in FilterTexts : FilterInput(t)
    \/ \E o \in SortOrders : SortChange(o)
    \/ PrevPage
    \/ NextPage
    \/ \E b \in BOOLEAN : AutoRefreshChange(b)
    \/ \E i \in 1..MaxTimers : TimerFires(i)
    \/ \E c \in 1..MaxRefreshes :
          \/ UtxosArrive(c, Wallet(refreshes[c].address))
          \/ UtxosArrive(c, <<>>)
          \/ UtxosFail(c)
          \/ SummaryArrives(c, TRUE, Len(Wallet(refreshes[c].summaryFor)))
          \/ SummaryArrives(c, FALSE, 0)

SpecDash == Init /\ [][NextDash]_vars

----------------------------------------------------------------------------
(* The auto-refresh timer under any texts in the refresh-interval field      *)

IntervalTexts ==
    { <<>>, <<"x">>, <<"1">>, <<"6", "0">>, <<"-", "3">>,
      <<"2", "1", "4", "7", "4", "8", "3">>, <<"2", "1", "4", "7", "4", "8", "4">> }

NextTimer ==
    \/ \E t \in IntervalTexts : IntervalInput(t)
    \/ \E b \in BOOLEAN : AutoRefreshChange(b)
    \/ Submit(<<"A">>)
    \/ \E i \in 1..MaxTimers : TimerFires(i)
    \/ \E c \in 1..MaxRefreshes :
          \/ UtxosArrive(c, Wallet(refreshes[c].address))
          \/ UtxosArrive(c, <<>>)
          \/ UtxosFail(c)
          \/ SummaryArrives(c, TRUE, Len(Wallet(refreshes[c].summaryFor)))
          \/ SummaryArrives(c, FALSE, 0)

SpecTimer == Init /\ [][NextTimer]_vars

----------------------------------------------------------------------------
(* Properties of the server (Spec) *)

\* request r was answered 200 from the upstream and stored what it fetched
Stored(r) ==
    /\ req[r].pc = "done" /\ req[r].route \in {"utxos", "asset", "tx"}
    /\ req[r].resp.status = 200 /\ ~req[r].resp.cached

\* C4: cache round trip.  For every key, a getCached made now returns exactly
\* the value of the last setCached under that key when at most 30000 ms have
\* passed since that store, and null (absent) when more have passed; this covers
\* a store made after an earlier entry of the key expired.
C4_CacheRoundTrip ==
    \A k \in DOMAIN lastPut :
        LET got == getCachedValue(cache, k, now)
        IN  IF now - lastPut[k].at <= 30000
            THEN got = lastPut[k].data
            ELSE got = JNull

\* a request found the expired entry of its key, evicted it and stored another
\* value, which a read now returns
C4_Witness ==
    \E r, q \in Reqs :
        /\ Stored(r) /\ Stored(q) /\ req[r].url = req[q].url
        /\ req[r].evicted /\ req[q].wire # req[r].wire
        /\ lastPut[req[r].url].at = now /\ now > 30000
        /\ getCachedValue(cache, req[r].url, now) = lastPut[req[r].url].data
        /\ lastPut[req[r].url].data # JNull

\* C5 (as claimed): on every proxied route a non-2xx upstream status is answered
\* 502 when it is >= 500 and with the same status when it is 4xx.
C5_UpstreamErrorMapped ==
    \A r \in Reqs :
        (/\ req[r].pc = "done" /\ req[r].upStatus # 0
         /\ ~(req[r].upStatus \in 200..299))
        => req[r].resp.status = (IF req[r].upStatus >= 500 THEN 502 ELSE req[r].upStatus)

\* C6 (as claimed): on every proxied route an upstream call aborted by the
\* timeout is answered 504.
C6_TimeoutIs504 ==
    \A r \in Reqs :
        (req[r].pc = "done" /\ req[r].err = "AbortError") => req[r].resp.status = 504

\* C7: on every route a request whose identifier is empty after whitespace
\* removal is answered 400 in the step that receives it, without a call of the
\* upstream, without a cache lookup, and with the cache left as it was.
C7_InvalidInputRejected ==
    [][\A r \in Reqs :
          (/\ req[r].pc = "idle" /\ req'[r].pc # "idle"
           /\ req'[r].route \in {"utxos", "asset", "tx", "summary"}
           /\ \A i \in DOMAIN req'[r].input.param : req'[r].input.param[i] \in WhiteSpace)
          => /\ req'[r].pc = "done" /\ req'[r].resp.status = 400
             /\ req'[r].calls = 0 /\ req'[r].lookups = 0
             /\ cache' = cache]_vars

\* every route has rejected a blank identifier while the cache held an entry
C7_Witness ==
    /\ cache # <<>>
    /\ \E r \in Reqs :
          /\ req[r].pc = "done" /\ req[r].resp.status = 400
          /\ req[r].input.param = <<" ">> /\ req[r].calls = 0

\* C10: on the UTXO route a 2xx body that is the bare array L and a 2xx body
\* that is the object {items: L} are both answered 200 with items equal to L
\* (L as JSON.parse delivers it).
C10_ShapeNormalized ==
    \A r \in Reqs :
        (/\ req[r].pc = "done" /\ req[r].route = "utxos"
         /\ req[r].upStatus \in 200..299 /\ req[r].wire.k \in {"arr", "obj"})
        => LET w == req[r].wire
           IN  /\ w.k = "arr"
                    => req[r].resp.status = 200 /\ req[r].resp.items = ParseJSON(w)
               /\ (w.k = "obj" /\ "items" \in DOMAIN w.f /\ w.f.items.k = "arr")
                    => /\ req[r].resp.status = 200
                       /\ req[r].resp.items = ParseJSON(w.f.items)

\* the same list arrived in both shapes and was answered with the same items
C10_Witness ==
    \E r, q \in Reqs :
        /\ req[r].pc = "done" /\ req[r].route = "utxos" /\ req[r].resp.status = 200
        /\ req[q].pc = "done" /\ req[q].route = "utxos" /\ req[q].resp.status = 200
        /\ req[r].wire = JArr(<<ItemA>>)
        /\ req[q].wire = JObj([items |-> JArr(<<ItemA>>)])
        /\ req[r].resp.items = req[q].resp.items
        /\ req[r].resp.items = JArr(<<ItemA>>)

----------------------------------------------------------------------------
(* Properties of the aggregator (SpecAgg) *)

\* the list of boxes a body carries
WireList(w) ==
    IF w.k = "arr" THEN w.a
    ELSE IF w.k = "obj" /\ "items" \in DOMAIN w.f /\ w.f.items.k = "arr" THEN w.f.items.a
    ELSE <<>>

\* the integer a value or amount of the body denotes, 0 when the field is absent
WireInteger(v) ==
    CASE v.k = "num" -> v.n
      [] v.k = "str" -> BigFromDigits(v.s, <<>>)
      [] OTHER -> <<>>

RECURSIVE ExactTotal(_)
ExactTotal(boxes) ==
    IF boxes = <<>> THEN <<>>
    ELSE BigAdd(WireInteger(Field(Head(boxes), "value")), ExactTotal(Tail(boxes)))

\* the assets of all boxes, in order
RECURSIVE WireAssets(_)
WireAssets(boxes) ==
    IF boxes = <<>> THEN <<>>
    ELSE (IF Field(Head(boxes), "assets").k = "arr"
          THEN Field(Head(boxes), "assets").a ELSE <<>>) \o WireAssets(Tail(boxes))

RECURSIVE ExactTokenSum(_, _)
ExactTokenSum(assets, id) ==
    IF assets = <<>> THEN <<>>
    ELSE BigAdd(IF Field(Head(assets), "tokenId").s = id
                THEN WireInteger(Field(Head(assets), "amount")) ELSE <<>>,
                ExactTokenSum(Tail(assets), id))

\* request r is a summary request answered after the upstream delivered a body
SummaryAnswered(r) ==
    req[r].pc = "done" /\ req[r].route = "summary" /\ req[r].wire.k # "undefined"

\* C8 (as claimed): for every list of UTXOs from the upstream whose values are
\* non-negative integers, totalNanoErg is the decimal numeral of the exact sum
\* of the values.
C8_TotalExact ==
    \A r \in Reqs : SummaryAnswered(r) =>
        /\ req[r].resp.status = 200
        /\ req[r].resp.totalNanoErg = BigToString(ExactTotal(WireList(req[r].wire)))

\* C9 (as claimed): the summary's tokens hold exactly one entry per distinct
\* tokenId of the assets, its amount the decimal numeral of the exact sum of the
\* amounts under that tokenId, and tokenCount is the number of distinct tokenIds.
C9_TokensMerged ==
    \A r \in Reqs : SummaryAnswered(r) =>
        LET assets == WireAssets(WireList(req[r].wire))
            ids    == {Field(assets[i], "tokenId").s : i \in DOMAIN assets}
            tokens == req[r].resp.tokens
        IN  /\ req[r].resp.status = 200
            /\ req[r].resp.tokenCount = Cardinality(ids)
            /\ Len(tokens) = Cardinality(ids)
            /\ \A id \in ids :
                  \E i \in DOMAIN tokens :
                      /\ tokens[i].tokenId = id
                      /\ tokens[i].amount = BigToString(ExactTokenSum(assets, id))

\* C11 (as claimed): a summary request whose upstream reply is a list of n
\* UTXOs is answered 200 with utxoCount = n, totalNanoErg the sum of the values
\* (a missing value counting 0), and tokenCount = 0 when no item has assets.
C11_SummaryEndToEnd ==
    \A r \in Reqs : SummaryAnswered(r) =>
        LET boxes == WireList(req[r].wire)
        IN  /\ req[r].resp.status = 200
            /\ req[r].resp.utxoCount = Len(boxes)
            /\ req[r].resp.totalNanoErg = BigToString(ExactTotal(boxes))
            /\ WireAssets(boxes) = <<>> => req[r].resp.tokenCount = 0

\* C11 without the exactness of the total: the counts alone
SummaryCounts ==
    \A r \in Reqs : SummaryAnswered(r) =>
        LET boxes == WireList(req[r].wire)
        IN  /\ req[r].resp.status = 200
            /\ req[r].resp.utxoCount = Len(boxes)
            /\ WireAssets(boxes) = <<>> => req[r].resp.tokenCount = 0

\* C12 (as claimed): a request suspended on the upstream, waiting for the
\* response status or reading the response body, never waits past the 30 s
\* timeout counted from the moment the upstream call was issued.
C12_SuspensionBounded ==
    \A r \in Reqs :
        req[r].pc \in {"fetch", "text", "json"} => now - req[r].t0 <= 30000

\* the position of the first asset that carries tokenId id
FirstOccurrence(assets, id) ==
    CHOOSE n \in DOMAIN assets :
        /\ Field(assets[n], "tokenId").s = id
        /\ \A m \in 1..(n - 1) : Field(assets[m], "tokenId").s # id

\* C26: in a summary built from a list of UTXOs, every tokenId of the tokens
\* list is carried by some asset, and one tokenId stands before another in the
\* list exactly when its first asset comes before the first asset of the
\* other, walking the items in order and each item's assets in order.
C26_TokensInFirstOccurrenceOrder ==
    \A r \in Reqs : (SummaryAnswered(r) /\ req[r].resp.status = 200) =>
        LET assets == WireAssets(WireList(req[r].wire))
            tokens == req[r].resp.tokens
            ids    == {Field(assets[n], "tokenId").s : n \in DOMAIN assets}
        IN  /\ \A i \in DOMAIN tokens : tokens[i].tokenId \in ids
            /\ \A i, j \in DOMAIN tokens :
                  i < j <=> FirstOccurrence(assets, tokens[i].tokenId)
                              < FirstOccurrence(assets, tokens[j].tokenId)

\* a summary whose first box carries T1 alone and whose next box carries T2
\* and then T1 again; the tokens list is T1, T2
C26_Witness ==
    \E r \in Reqs :
        /\ SummaryAnswered(r) /\ req[r].resp.status = 200
        /\ LET assets == WireAssets(WireList(req[r].wire))
           IN  /\ Len(assets) >= 3
               /\ Field(assets[1], "tokenId").s = T1
               /\ Field(assets[2], "tokenId").s = T2
               /\ Field(assets[3], "tokenId").s = T1
        /\ Len(req[r].resp.tokens) = 2
        /\ req[r].resp.tokens[1].tokenId = T1
        /\ req[r].resp.tokens[2].tokenId = T2

----------------------------------------------------------------------------
(* Properties of the rate limiter (SpecLimiter) *)

\* C13: within one window of the limiter at most 30 requests of the client
\* address are passed on to a route; every further request of that window is
\* answered 429 with the fixed error body in the step that receives it, with no
\* identifier normalized, no upstream URL built, no cache lookup, no upstream
\* call and the cache left as it was.
C13_RateLimited ==
    [][/\ limiter'.handled <= 30
       /\ \A r \in Reqs :
             (/\ req[r].pc = "idle" /\ req'[r].pc # "idle"
              /\ limiter.handled >= 30 /\ now < limiter.resetTime)
             => /\ req'[r].pc = "done"
                /\ req'[r].resp = [status |-> 429,
                                   error |-> "Too many requests, slow down."]
                /\ req'[r].id = <<>> /\ req'[r].url = NoUrl
                /\ req'[r].lookups = 0 /\ req'[r].calls = 0
                /\ cache' = cache]_vars

\* the thirty-first and thirty-second request of a window were turned away
\* while the cache held the answer to them
C13_Witness ==
    /\ limiter.handled = 30 /\ limiter.hits = 32 /\ now < limiter.resetTime
    /\ req[1].pc = "done" /\ req[1].resp.status = 429
    /\ req[1].input.param = <<"A">>
    /\ UtxoUrl(<<"A">>, 100, 0) \in DOMAIN cache
    /\ ~Expired(cache[UtxoUrl(<<"A">>, 100, 0)], now)

----------------------------------------------------------------------------
(* Further properties of the server (Spec) *)

\* C14 (as claimed): on the UTXO, asset and tx routes a valid request whose
\* upstream URL has a cache entry within TTL, whatever was stored under it, is
\* answered 200 with cached: true in the step that receives it, without an
\* upstream call.
C14_CacheHit ==
    [][\A r \in Reqs :
          (/\ req[r].pc = "idle" /\ req'[r].pc # "idle"
           /\ req'[r].route \in {"utxos", "asset", "tx"}
           /\ req'[r].id # <<>>
           /\ req'[r].url \in DOMAIN cache
           /\ now - cache[req'[r].url].ts <= 30000)
          => /\ req'[r].pc = "done"
             /\ req'[r].resp.status = 200 /\ req'[r].resp.cached
             /\ req'[r].calls = 0]_vars

\* C15 (as claimed): on every proxied route, the summary route included, the
\* step that answers 200 after a 2xx upstream response has stored an entry
\* under the request's upstream URL; and a UTXO or summary request received
\* within TTL of an identical request that was answered 200 from the upstream
\* makes no upstream call of its own.
C15_StoredBeforeResponse ==
    [][\A r \in Reqs :
          /\ (/\ req[r].pc = "json" /\ req'[r].pc = "done"
              /\ req[r].upStatus \in 200..299 /\ req'[r].resp.status = 200)
             => /\ req[r].url \in DOMAIN cache'
                /\ cache'[req[r].url].ts = now
          /\ (/\ req[r].pc = "idle" /\ req'[r].pc # "idle"
              /\ req'[r].route \in {"utxos", "summary"}
              /\ \E q \in Reqs \ {r} :
                    /\ req[q].pc = "done" /\ req[q].resp.status = 200
                    /\ req[q].calls = 1 /\ now - req[q].t0 <= 30000
                    /\ req[q].route = req'[r].route /\ req[q].url = req'[r].url)
             => req'[r].calls = 0]_vars

\* request r was answered with the error envelope
ErrorAnswered(r) == req[r].pc = "done" /\ "error" \in DOMAIN req[r].resp

\* C16 (as claimed): every error response has a status in
\* {400, 404, 429, 500, 502, 504}.
C16_ErrorStatusSet ==
    \A r \in Reqs :
        ErrorAnswered(r) => req[r].resp.status \in {400, 404, 429, 500, 502, 504}

\* C16 (amended): every error response has a status in
\* {400, 404, 429, 500, 502, 504}, or, on the UTXO, asset and tx routes, is the
\* upstream's own non-2xx status below 500, forwarded unchanged.
C16_ErrorStatusSetOrForwarded ==
    \A r \in Reqs :
        ErrorAnswered(r) =>
            \/ req[r].resp.status \in {400, 404, 429, 500, 502, 504}
            \/ /\ req[r].route \in {"utxos", "asset", "tx"}
               /\ req[r].upStatus # 0 /\ req[r].upStatus < 500
               /\ ~(req[r].upStatus \in 200..299)
               /\ req[r].resp.status = req[r].upStatus

\* an upstream 403 was forwarded, an upstream 503 became 502, and the fallback
\* answered 404
C16_Witness ==
    /\ \E r \in Reqs : /\ ErrorAnswered(r) /\ req[r].route = "tx"
                       /\ req[r].upStatus = 403 /\ req[r].resp.status = 403
    /\ \E r \in Reqs : \/ /\ ErrorAnswered(r) /\ req[r].upStatus = 503
                          /\ req[r].resp.status = 502
                       \/ /\ ErrorAnswered(r) /\ req[r].route = "unmatched"
                          /\ req[r].resp.status = 404

\* C17: a handler that has ended has sent exactly one response, a handler still
\* suspended has sent none, and every error that reached a catch block (abort,
\* network failure, unparseable body, a TypeError of the normalization or the
\* aggregation) was answered with the error envelope.
C17_ExactlyOneResponse ==
    \A r \in Reqs :
        /\ req[r].sent <= 1
        /\ req[r].pc = "done" => req[r].sent = 1 /\ req[r].resp.status # 0
        /\ req[r].pc # "done" => req[r].sent = 0 /\ req[r].resp = NoResp
        /\ req[r].err # "" => ErrorAnswered(r) /\ req[r].sent = 1

\* a failure of the aggregation and a failure of the upstream call were both
\* caught and answered
C17_Witness ==
    \E r, q \in Reqs :
        /\ req[r].route = "summary" /\ req[r].err = "TypeError"
        /\ req[r].wire = JArr(<<JNull>>) /\ req[r].sent = 1
        /\ req[r].resp.status = 500
        /\ req[q].route = "utxos" /\ req[q].err = "FetchError" /\ req[q].sent = 1

\* C18: no request calls the upstream more than once, whatever the outcome of
\* its call, and a request answered from the cache or rejected calls it never.
C18_NoRetry ==
    \A r \in Reqs :
        /\ req[r].calls <= 1
        /\ (req[r].upStatus # 0 \/ req[r].err \in {"AbortError", "FetchError", "SyntaxError"})
              => req[r].calls = 1
        /\ (req[r].pc = "done" /\ req[r].upStatus = 0 /\ req[r].err = "")
              => req[r].calls = 0

\* a request that timed out and one whose body was unparseable have both ended
\* after one upstream call each
C18_Witness ==
    \E r, q \in Reqs :
        /\ req[r].pc = "done" /\ req[r].err = "AbortError" /\ req[r].calls = 1
        /\ req[q].pc = "done" /\ req[q].err = "SyntaxError" /\ req[q].calls = 1
        /\ req[q].upStatus = 503

\* C19: on every proxied route the step in which the upstream call fails at
\* connection level, or a 2xx body turns out not to be JSON, answers 500 and
\* leaves the cache as it is; and the steps of the request before it (its cache
\* lookup, the arrival of the response status) change the cache at most by
\* deleting entries that had already expired, so that no read of the cache is
\* changed by the request.
C19_FailureIs500 ==
    [][\A r \in Reqs :
          /\ (/\ req[r].pc \in {"fetch", "json"} /\ req'[r].pc = "done"
              /\ \/ req'[r].err = "FetchError"
                 \/ req'[r].err = "SyntaxError" /\ req[r].upStatus \in 200..299)
             => /\ req'[r].resp.status = 500
                /\ cache' = cache /\ lastPut' = lastPut
          /\ (\/ req[r].pc = "idle" /\ req'[r].pc = "fetch"
              \/ req[r].pc = "fetch" /\ req'[r].pc = "json")
             => /\ DOMAIN cache' \subseteq DOMAIN cache
                /\ \A k \in DOMAIN cache' : cache'[k] = cache[k]
                /\ \A k \in DOMAIN cache \ DOMAIN cache' : now - cache[k].ts > 30000]_vars

\* a request found an expired entry under its URL, called the upstream, got a
\* 200 with an unparseable body and was answered 500; nothing is cached
C19_Witness ==
    \E r \in Reqs :
        /\ req[r].pc = "done" /\ req[r].evicted
        /\ req[r].upStatus = 200 /\ req[r].err = "SyntaxError"
        /\ req[r].resp.status = 500
        /\ req[r].url \notin DOMAIN cache

\* C19 (as claimed): a request whose upstream call failed at connection level,
\* or whose 2xx body was not JSON, is answered 500 and has left the cache map
\* exactly as it was: it has written nothing and deleted nothing.
C19_CacheUntouched ==
    \A r \in Reqs :
        (/\ req[r].pc = "done"
         /\ \/ req[r].err = "FetchError"
            \/ req[r].err = "SyntaxError" /\ req[r].upStatus \in 200..299)
        => req[r].resp.status = 500 /\ ~req[r].evicted

\* C20: on the UTXO, asset and tx routes the error payload for a non-2xx
\* upstream response carries the upstream's status in its status field and, as
\* body, a prefix of the upstream body of at most 1000 characters (the first
\* 1000 when the body is longer, the whole body otherwise), the empty string
\* when the body could not be read.
C20_ErrorPayload ==
    \A r \in Reqs :
        (/\ req[r].pc = "done" /\ req[r].route \in {"utxos", "asset", "tx"}
         /\ req[r].upStatus # 0 /\ ~(req[r].upStatus \in 200..299))
        => LET body == req[r].resp.body
           IN  /\ req[r].resp.upstream = req[r].upStatus
               /\ Len(body) <= 1000
               /\ IF req[r].wire.k = "str"
                  THEN /\ Len(body) <= Len(req[r].wire.s)
                       /\ body = SubSeq(req[r].wire.s, 1, Len(body))
                       /\ Len(body) = 1000 \/ Len(body) = Len(req[r].wire.s)
                  ELSE body = <<>>

\* an upstream body of 1001 characters was cut to its first 1000, and a body
\* that could not be read gave the empty string
C20_Witness ==
    \E r, q \in Reqs :
        /\ req[r].pc = "done" /\ req[r].route = "asset" /\ req[r].upStatus = 503
        /\ req[r].wire = JStr(LongText) /\ Len(req[r].resp.body) = 1000
        /\ req[r].resp.upstream = 503 /\ req[r].resp.status = 502
        /\ req[q].pc = "done" /\ req[q].route = "utxos" /\ req[q].upStatus = 404
        /\ req[q].wire = JUndefined /\ req[q].resp.body = <<>>

----------------------------------------------------------------------------
(* Properties of the identifier normalizers (SpecIds) *)

\* the path segment the upstream reads off an encoded one: %20 is a space
RECURSIVE DecodeSegment(_)
DecodeSegment(s) ==
    IF s = <<>> THEN <<>>
    ELSE IF Len(s) >= 3 /\ SubSeq(s, 1, 3) = <<"%", "2", "0">>
         THEN <<" ">> \o DecodeSegment(SubSeq(s, 4, Len(s)))
         ELSE <<Head(s)>> \o DecodeSegment(Tail(s))

\* C21 (as claimed): on every route the identifier placed in the upstream URL
\* holds no whitespace character, leading, trailing or interior.
C21_NoWhitespaceUpstream ==
    \A r \in Reqs :
        req[r].lookups > 0 =>
            \A i \in DOMAIN DecodeSegment(req[r].url.id) :
                DecodeSegment(req[r].url.id)[i] \notin WhiteSpace

----------------------------------------------------------------------------
(* Further properties of the request normalizers (SpecParams) *)

\* C22: whatever limit and offset the client sends, the summary route asks the
\* upstream for /boxes/byAddress/<address>?limit=500 and nothing else, calls it
\* at most once, and its utxoCount is the number of items of that one reply.
C22_SummaryFixedWindow ==
    \A r \in Reqs :
        (req[r].route = "summary" /\ req[r].lookups > 0) =>
            /\ req[r].url = [path |-> "/boxes/byAddress/",
                             id |-> encodeURIComponent(req[r].id),
                             query |-> <<500>>]
            /\ req[r].calls <= 1
            /\ (req[r].pc = "done" /\ req[r].resp.status = 200)
                  => req[r].resp.utxoCount = Len(WireList(req[r].wire))

\* a summary request that came with limit=5 and offset=600 asked for the
\* window of 500 all the same
C22_Witness ==
    \E r \in Reqs :
        /\ req[r].route = "summary" /\ req[r].pc = "done"
        /\ req[r].input.limit = QStr(<<"5">>) /\ req[r].input.offset = QStr(<<"6", "0", "0">>)
        /\ req[r].url.query = <<500>> /\ req[r].calls = 1
        /\ req[r].resp.utxoCount = 1

----------------------------------------------------------------------------
(* Properties of the cache under concurrent requests (Spec) *)

\* in this step request r calls getCached(k)
LooksUp(r, k) ==
    req[r].pc = "idle" /\ req'[r].lookups = 1 /\ req'[r].url = k

\* in this step request r calls setCached(k, ..)
Stores(r, k) ==
    /\ req[r].pc = "json" /\ req'[r].pc = "done" /\ req[r].url = k
    /\ req[r].route \in {"utxos", "asset", "tx"}
    /\ req'[r].resp.status = 200

\* C23: a response is served from the cache only out of an entry at most
\* 30000 ms old; a lookup that finds an older entry under its key removes it;
\* and an entry leaves the map only through a lookup of its own key made after
\* it expired, and changes only through a store to its own key: the passing of
\* time and every other operation leave it alone.
C23_LazyEviction ==
    [][/\ \A r \in Reqs :
             /\ (req[r].pc = "idle" /\ req'[r].pc = "done" /\ req'[r].lookups = 1)
                => /\ req'[r].url \in DOMAIN cache
                   /\ now - cache[req'[r].url].ts <= 30000
             /\ \A k \in DOMAIN cache :
                   (LooksUp(r, k) /\ now - cache[k].ts > 30000)
                   => k \notin DOMAIN cache' /\ req'[r].pc = "fetch"
       /\ \A k \in DOMAIN cache :
             /\ k \notin DOMAIN cache'
                => /\ now - cache[k].ts > 30000
                   /\ \E r \in Reqs : LooksUp(r, k)
             /\ (k \in DOMAIN cache' /\ cache'[k] # cache[k])
                => /\ cache'[k].ts = now
                   /\ \E r \in Reqs : Stores(r, k)]_vars

\* an entry outlived its TTL in the map until a request looked its key up,
\* removed it and went on to the upstream
C23_Witness ==
    \E r, q \in Reqs :
        /\ req[q].pc = "done" /\ req[q].resp.status = 200 /\ req[q].calls = 1
        /\ req[r].url = req[q].url /\ req[q].url \in DOMAIN lastPut
        /\ now - lastPut[req[q].url].at > 30000
        /\ req[r].evicted /\ req[r].pc = "fetch" /\ req[r].url \notin DOMAIN cache

\* the characters of the path a URL starts with, after TESTNET_BASE
PathChars(path) ==
    CASE path = "/boxes/byAddress/" ->
            <<"/","b","o","x","e","s","/","b","y","A","d","d","r","e","s","s","/">>
      [] path = "/tokens/" -> <<"/","t","o","k","e","n","s","/">>
      [] path = "/transactions/byId/" ->
            <<"/","t","r","a","n","s","a","c","t","i","o","n","s","/","b","y","I","d","/">>
      [] OTHER -> <<>>

\* the URL as the string the template literal yields, after TESTNET_BASE
UrlString(u) ==
    PathChars(u.path) \o u.id
    \o (IF Len(u.query) >= 1
        THEN <<"?","l","i","m","i","t","=">> \o Decimal(u.query[1]) ELSE <<>>)
    \o (IF Len(u.query) >= 2
        THEN <<"&","o","f","f","s","e","t","=">> \o Decimal(u.query[2]) ELSE <<>>)

\* identifiers that try to pass for a path or a query
KeyChars == {"A", "/", "?", "&", "=", "%", "5"}
KeyIds == SeqsUpTo(KeyChars, 2) \ {<<>>}
KeyUrls ==
    {UtxoUrl(id, l, o) : id \in KeyIds, l \in {5, 100, 500}, o \in {0, 5}}
    \cup {SummaryUrl(id) : id \in KeyIds}
    \cup {TokenUrl(id) : id \in KeyIds}
    \cup {TxUrl(id) : id \in KeyIds}

\* two cache keys are the same string only when they agree in path, identifier,
\* limit and offset
KeysDistinct ==
    \A u \in KeyUrls, v \in KeyUrls : UrlString(u) = UrlString(v) => u = v

\* the effective parameters of a request: route, identifier, limit, offset
EffectiveParams(route, id, input) ==
    [route  |-> route, id |-> id,
     limit  |-> IF route = "utxos" THEN EffectiveLimit(input.limit)
                ELSE IF route = "summary" THEN 500 ELSE 0,
     offset |-> IF route = "utxos" THEN EffectiveOffset(input.offset) ELSE 0]

WriterParams(k) ==
    EffectiveParams(lastPut[k].by.route, lastPut[k].by.id, lastPut[k].by.input)

\* C24: cache keys of different parameterizations are different strings; a
\* response served from the cache comes out of an entry that was fetched for
\* the same route, identifier, limit and offset; and a store replaces only an
\* entry that was fetched for the same route, identifier, limit and offset.
C24_KeysNeverCollide ==
    [][/\ KeysDistinct
       /\ \A r \in Reqs :
             /\ (/\ req[r].pc = "idle" /\ req'[r].pc = "done"
                 /\ req'[r].lookups = 1)
                => /\ req'[r].url \in DOMAIN lastPut
                   /\ WriterParams(req'[r].url)
                        = EffectiveParams(req'[r].route, req'[r].id, req'[r].input)
             /\ (Stores(r, req[r].url) /\ req[r].url \in DOMAIN lastPut)
                => WriterParams(req[r].url)
                     = EffectiveParams(req[r].route, req[r].id, req[r].input)]_vars

\* a UTXO request missed while the cache held the fresh entry of a request
\* for the same address with another limit
C24_Witness ==
    \E r, q \in Reqs :
        /\ req[q].pc = "done" /\ req[q].route = "utxos" /\ req[q].resp.status = 200
        /\ req[q].url \in DOMAIN cache /\ now - cache[req[q].url].ts <= 30000
        /\ req[r].route = "utxos" /\ req[r].id = req[q].id
        /\ req[r].url.query # req[q].url.query
        /\ req[r].pc = "fetch" /\ req[r].t0 >= cache[req[q].url].ts


----------------------------------------------------------------------------
(* Properties of concurrent misses (Spec) *)

\* what request q, answered 200 from the upstream, put into the cache: on the
\* UTXO route the items it sent to its client together with the body as
\* parsed, on the asset and tx routes the item it sent
PayloadOf(q) ==
    IF req[q].route = "utxos"
    THEN JObj([items |-> req[q].resp.items, raw |-> ParseJSON(req[q].wire)])
    ELSE req[q].resp.item

\* C25: a request that finds no fresh entry under its key calls the upstream
\* itself, whether or not another request for the same key is in flight; no
\* request is answered more than once and an ended request was answered once;
\* and every cache entry is, whole, the payload of one request for that key
\* that was answered 200 from a 2xx upstream response.
C25_ConcurrentMissesSafe ==
    /\ [][\A r \in Reqs :
             (/\ req[r].pc = "idle" /\ req'[r].lookups = 1
              /\ \/ req'[r].url \notin DOMAIN cache
                 \/ now - cache[req'[r].url].ts > 30000)
             => req'[r].pc = "fetch" /\ req'[r].calls = 1]_vars
    /\ [](\A r \in Reqs :
             /\ req[r].sent <= 1
             /\ req[r].pc = "done" => req[r].sent = 1)
    /\ [](\A k \in DOMAIN cache :
             \E q \in Reqs :
                 /\ Stored(q) /\ req[q].url = k /\ req[q].calls = 1
                 /\ req[q].upStatus \in 200..299
                 /\ cache[k].data = PayloadOf(q))

\* two requests for the same key both missed and fetched, the upstream gave
\* them different bodies, and the entry is the payload of one of them
C25_Witness ==
    \E r, q \in Reqs :
        /\ r # q /\ Stored(r) /\ Stored(q) /\ req[r].url = req[q].url
        /\ req[r].t0 = req[q].t0
        /\ req[r].wire # req[q].wire
        /\ req[r].wire.k = "obj" /\ req[q].wire.k = "obj"
        /\ req[r].url \in DOMAIN cache
        /\ cache[req[r].url].data = PayloadOf(q)


----------------------------------------------------------------------------
(* Properties of the payload across hit and miss and across routes (Spec) *)

\* C27 (as claimed): on the UTXO route, the items of a response served from the
\* cache equal the items of the response of the request that fetched and
\* stored the entry, whatever JSON body the upstream delivered.
C27_HitItemsEqualMissItems ==
    \A r, q \in Reqs :
        (/\ req[r].pc = "done" /\ req[r].route = "utxos"
         /\ req[r].resp.status = 200 /\ req[r].resp.cached
         /\ Stored(q) /\ req[q].url = req[r].url)
        => req[r].resp.items = req[q].resp.items


\* C28 (as claimed): when the explorer delivers the same JSON payload, an
\* array or an object, to a UTXO request and to a summary request, the items
\* the summary route aggregates over are the items the UTXO route derived from
\* that payload.
C28_NormalizationUniform ==
    \A r, q \in Reqs :
        (/\ Stored(r) /\ req[r].route = "utxos"
         /\ req[r].wire.k \in {"arr", "obj"}
         /\ SummaryAnswered(q) /\ req[q].wire = req[r].wire)
        => SummaryItems(ParseJSON(req[q].wire)) = req[r].resp.items


----------------------------------------------------------------------------
(* Properties of what is written to the cache (Spec) *)

\* in this step request r receives its response
Ends(r) == req[r].pc # "done" /\ req'[r].pc = "done"

\* in this step an entry is added under key k or the entry under k is replaced
Written(k) == k \in DOMAIN cache' /\ (k \notin DOMAIN cache \/ cache'[k] # cache[k])

\* C29: every cache entry is the one stored by a request whose upstream call
\* returned a 2xx status and whose body parsed as JSON; an entry is added or
\* replaced only in the step in which such a request is answered 200; and the
\* step in which a request is answered 400, 429, a forwarded 4xx, 502, 504 or
\* 500 adds and replaces nothing.
C29_OnlySuccessCached ==
    /\ [](\A k \in DOMAIN cache :
             /\ k \in DOMAIN lastPut
             /\ cache[k] = [data |-> lastPut[k].data, ts |-> lastPut[k].at]
             /\ \E q \in Reqs :
                   /\ Stored(q) /\ req[q].url = k
                   /\ req[q].upStatus \in 200..299
                   /\ req[q].wire.k # "undefined" /\ req[q].err = ""
                   /\ lastPut[k].by = [route |-> req[q].route, id |-> req[q].id,
                                       input |-> req[q].input])
    /\ [][/\ \A k \in DOMAIN cache' :
                Written(k) =>
                   \E r \in Reqs :
                       /\ Ends(r) /\ req[r].pc = "json" /\ req[r].url = k
                       /\ req[r].upStatus \in 200..299
                       /\ req'[r].wire.k # "undefined"
                       /\ req'[r].resp.status = 200
          /\ \A r \in Reqs :
                (Ends(r) /\ req'[r].resp.status \in {400, 403, 404, 429, 500, 502, 504})
                => /\ \A k \in DOMAIN cache' : ~Written(k)
                   /\ lastPut' = lastPut]_vars

\* a UTXO request was answered 502 and a tx request 500 on an unparseable
\* body, both after a miss, and the cache is empty
C29_Witness ==
    \E r, q \in Reqs :
        /\ req[r].pc = "done" /\ req[r].route = "utxos" /\ req[r].calls = 1
        /\ req[r].upStatus = 503 /\ req[r].resp.status = 502
        /\ req[q].pc = "done" /\ req[q].route = "tx" /\ req[q].calls = 1
        /\ req[q].upStatus = 200 /\ req[q].err = "SyntaxError"
        /\ req[q].resp.status = 500
        /\ cache = <<>>


\* C30: the step in which a request stores under key k leaves under k exactly
\* that request's payload stamped with the time of the step, whatever entry
\* another request for the same key left there before and whichever of them
\* started first; and an entry is added or replaced by no other step.
C30_LastWriterWins ==
    [][\A k \in DOMAIN cache \cup DOMAIN cache' :
          /\ \A r \in Reqs :
                Stores(r, k) =>
                    /\ k \in DOMAIN cache'
                    /\ cache'[k] = [data |-> PayloadOf(r)', ts |-> now]
                    /\ now' = now
          /\ Written(k) => \E r \in Reqs : Stores(r, k)]_vars

\* two requests for one key both missed, the one that started first stored
\* last, 30000 ms after it started, over the different payload the other had
\* stored: the entry is its payload, stamped with the time of its store
C30_Witness ==
    \E r, q \in Reqs :
        /\ Stored(r) /\ Stored(q) /\ req[r].url = req[q].url
        /\ req[r].t0 < req[q].t0
        /\ PayloadOf(r) # PayloadOf(q)
        /\ req[r].url \in DOMAIN cache
        /\ cache[req[r].url] = [data |-> PayloadOf(r), ts |-> now]
        /\ now = req[r].t0 + 30000


----------------------------------------------------------------------------
(* Properties of the dashboard (SpecDash, SpecTimer) *)

\* no invocation of doRefresh is in flight
Quiescent == \A c \in DOMAIN refreshes : refreshes[c].pc = "done"

\* C31 (as claimed): once every invocation of doRefresh has completed, none of
\* them having failed, currentItems is the list one of them fetched for the
\* current value of currentAddress, and every row of the table is a box of
\* that list.
C31_RefreshForCurrentAddress ==
    (/\ Quiescent /\ refreshes # <<>>
     /\ \A c \in DOMAIN refreshes : ~refreshes[c].failed)
    => \E c \in DOMAIN refreshes :
          /\ refreshes[c].address = currentAddress
          /\ currentItems = refreshes[c].items
          /\ \A k \in DOMAIN dom.table :
                \E j \in DOMAIN currentItems : dom.table[k] = currentItems[j]


\* the interval timers that have been created and not cleared
ActiveTimers == {i \in DOMAIN timers : timers[i].active}

\* at most one interval timer is active, it is the one autoRefreshTimer names,
\* and with the checkbox cleared (stopAutoRefresh ran last, or nothing ran)
\* none is active and autoRefreshTimer is null
TimerDiscipline ==
    /\ Cardinality(ActiveTimers) <= 1
    /\ ActiveTimers = IF autoRefreshTimer = null THEN {} ELSE {autoRefreshTimer.id}
    /\ ~dom.autoRefresh => (ActiveTimers = {} /\ autoRefreshTimer = null)
    /\ dom.autoRefresh => autoRefreshTimer # null

\* C32 (as claimed): after any sequence of startAutoRefresh and stopAutoRefresh
\* calls at most one interval timer is active; after stopAutoRefresh none is
\* active and autoRefreshTimer is null; and the period of the active timer is
\* never below 5000 ms.
C32_AutoRefreshTimer ==
    /\ TimerDiscipline
    /\ \A i \in ActiveTimers : timers[i].period >= 5000

====
